---- MODULE Spec2Model ----
(***************************************************************************)
(* report-cacher: the scheduler loop (downloadManager), the lifecycle      *)
(* wiring of main and catchCtrlC, the per-tick orchestration (downloadAll) *)
(* and the authentication of the download package (New / Login).           *)
(* Time is counted in whole seconds; the clock moves in steps of at most   *)
(* Quantum seconds and never past the next deadline of a sleeper.          *)
(***************************************************************************)
EXTENDS FiniteSets, Integers, Sequences, TLC

\* ---------------------------------------------------------------- constants

\* time.Sleep(3 * time.Minute) in main
MaxRun == 180
\* time.Sleep(8 * time.Second) in catchCtrlC
Grace == 8
\* flag default of -interval: 6*time.Hour
DefaultInterval == 21600
\* downloadManager(1*time.Minute, done)
ScenarioInterval == 60

\* ------------------------------------------------------------------- bounds

\* the instant at which the caller of a stand-alone loop fires the signal
ScenarioCancel == 210
\* the clock stops here
MaxTime == 220
\* the longest step of the clock
Quantum == 10
\* number of authenticity_token inputs a login page may carry
MaxInputs == 2
\* number of #user-controls elements a page may carry
MaxMarkers == 2
\* calendar days a report request may name
MaxDay == 2

\* the value of an instant that has not occurred (done not closed, no interrupt, no ticker, no run)
NoTime == -1

\* the intervals the program is started with
Intervals == {ScenarioInterval, DefaultInterval}
\* the instants at which the caller of a stand-alone loop closes done
CancelTimes == {0, ScenarioCancel}

\* ---------------------------------------------------------------- variables

VARIABLES
  now,        \* wall clock, seconds since the program started
  interval,   \* *interval
  alive,      \* the process is running
  exitCause,  \* how the process ended
  doneClosed, \* the done channel is closed
  closedAt,   \* instant of close(done)
  cancelAt,   \* instant at which a stand-alone loop's caller closes done
  mainPc,     \* position of main
  intPc,      \* position of the goroutine of catchCtrlC
  intAt,      \* instant the interrupt was received
  loopPc,     \* position of downloadManager
  tickAt,     \* instant the channel of time.Tick of the current select fires
  cur,        \* the orchestration update() is waiting for
  nStarted,   \* number of downloadAll calls so far
  runStart,   \* instant of the latest downloadAll call
  busy,       \* seconds spent inside update() so far
  orchs,      \* the downloadAll calls in flight
  loginIn,    \* the answers of the site to one New call
  loginDone,  \* New has returned
  loginRes,   \* what New returned
  sess,       \* the Downloader a caller of the download package holds
  srvSession, \* the site regards the cookies of that Downloader as logged in
  liRes,      \* what the latest LoggedIn call returned
  call,       \* the latest GetSoldItemsReport call on that Downloader, with the
              \* answer of the export form it was given
  file,       \* the destination file sold_items.csv
  nDownloaders, \* number of Downloader objects constructed by downloadAll
  nLaunched,  \* number of download goroutines launched by downloadAll
  usedBy      \* <<Downloader, tick>> for every download function that ran

svars == <<now, interval, alive, exitCause, doneClosed, closedAt, cancelAt,
           mainPc, intPc, intAt, loopPc, tickAt, cur, nStarted, runStart,
           busy, orchs>>
dvars == <<loginIn, loginDone, loginRes, sess, srvSession, liRes, call>>
hvars == <<nDownloaders, nLaunched, usedBy>>
vars == <<svars, dvars, file, hvars>>

\* ------------------------------------------------------- download package

Tokens == {"", "abc123", "zz9"}
Statuses == {200, 302, 401, 500}

RECURSIVE SeqsUpTo(_, _)
SeqsUpTo(S, n) ==
  IF n = 0 THEN {<<>>}
  ELSE LET shorter == SeqsUpTo(S, n - 1)
       IN shorter \cup {Append(s, x) : s \in {t \in shorter : Len(t) = n - 1}, x \in S}

\* what d.client.Get(d.site) and the parse of its body can yield
LoginPageResponses ==
  {[kind |-> k, inputs |-> <<>>] : k \in {"neterr", "readerr"}}
    \cup {[kind |-> "doc", inputs |-> s] : s \in SeqsUpTo(Tokens, MaxInputs)}

\* what d.client.PostForm(d.site+"/session", ...) and the parse of its body can yield
PostResponses ==
  {[kind |-> k, status |-> 0, markers |-> 0] : k \in {"neterr", "readerr"}}
    \cup {[kind |-> "doc", status |-> s, markers |-> m] : s \in Statuses, m \in 0..MaxMarkers}

LoginInputs == [lp : LoginPageResponses, post : PostResponses]

NoErr == "nil"

\* authToken reading the last matching input instead of the first
authTokenLast(doc) == IF Len(doc.inputs) = 0 THEN "" ELSE doc.inputs[Len(doc.inputs)]

\* authToken: the value of the first input[name="authenticity_token"], "" when there is none
authToken(doc) == IF Len(doc.inputs) = 0 THEN "" ELSE Head(doc.inputs)

\* loginStatus as a check of the response code
loginStatusByCode(doc) == doc.status = 200

\* loginStatus: doc.Find(`#user-controls`).Length() > 0
loginStatus(doc) == doc.markers > 0

\* Login going on to POST the form with an empty token
LoginWithoutTokenCheck(in) ==
  IF in.lp.kind = "neterr"
    THEN [err |-> "Could not get", token |-> "", posted |-> FALSE]
  ELSE IF in.lp.kind = "readerr"
    THEN [err |-> "Could not read response body", token |-> "", posted |-> FALSE]
  ELSE LET at == authToken(in.lp) IN
    IF in.post.kind = "neterr"
      THEN [err |-> "Failed POSTing login form", token |-> at, posted |-> TRUE]
    ELSE IF in.post.kind = "readerr"
      THEN [err |-> "Failed to access homepage", token |-> at, posted |-> TRUE]
    ELSE IF loginStatus(in.post) = FALSE
      THEN [err |-> "Invalid username or password", token |-> at, posted |-> TRUE]
    ELSE [err |-> NoErr, token |-> at, posted |-> TRUE]

\* Downloader.Login: the error returned, d.authenticity_token afterwards,
\* and whether the login form was POSTed
Login(in) ==
  IF in.lp.kind = "neterr"
    THEN [err |-> "Could not get", token |-> "", posted |-> FALSE]
  ELSE IF in.lp.kind = "readerr"
    THEN [err |-> "Could not read response body", token |-> "", posted |-> FALSE]
  ELSE LET at == authToken(in.lp) IN
    IF at = ""
      THEN [err |-> "Failed to find authenticity_token", token |-> "", posted |-> FALSE]
    ELSE IF in.post.kind = "neterr"
      THEN [err |-> "Failed POSTing login form", token |-> at, posted |-> TRUE]
    ELSE IF in.post.kind = "readerr"
      THEN [err |-> "Failed to access homepage", token |-> at, posted |-> TRUE]
    ELSE IF loginStatus(in.post) = FALSE
      THEN [err |-> "Invalid username or password", token |-> at, posted |-> TRUE]
    ELSE [err |-> NoErr, token |-> at, posted |-> TRUE]

\* download.New: a Downloader that is logged in, or (nil, error)
New(in) ==
  LET l == Login(in) IN
    IF l.err # NoErr
      THEN [ok |-> FALSE, err |-> "Login Failed", token |-> "", posted |-> l.posted]
      ELSE [ok |-> TRUE, err |-> NoErr, token |-> l.token, posted |-> l.posted]

NoResult == [ok |-> FALSE, err |-> "not called", token |-> "", posted |-> FALSE]
NoInput == [lp |-> [kind |-> "neterr", inputs |-> <<>>],
            post |-> [kind |-> "neterr", status |-> 0, markers |-> 0]]

\* one call of download.New against the answers drawn in the initial state
CallNew ==
  /\ ~loginDone
  /\ loginDone' = TRUE
  /\ loginRes' = New(loginIn)
  /\ sess' = [made |-> loginRes'.ok, token |-> loginRes'.token]
  /\ srvSession' = loginRes'.ok
  /\ UNCHANGED <<loginIn, liRes, call, file, svars, hvars>>

\* the Downloader before New has returned one
NoSess == [made |-> FALSE, token |-> ""]

Payloads == {"a,b,c", "1,2,3"}
Days == 1..MaxDay

\* what d.client.Get(d.site) and the parse of its body can yield in LoggedIn
HomeResponses ==
  {[kind |-> k, markers |-> 0] : k \in {"neterr", "readerr"}}
    \cup {[kind |-> "doc", markers |-> m] : m \in 0..MaxMarkers}

\* what the POST to /sold_items/create_export can yield: a transport error,
\* or a status with a body that cannot be read, or that carries or lacks a
\* download button with a data_reportfile attribute
ExportResponses ==
  {[kind |-> "neterr", status |-> 0, body |-> "none"]}
    \cup {[kind |-> "resp", status |-> st, body |-> b] :
            st \in Statuses, b \in {"readerr", "nolink", "link"}}

\* what the GET of the report URL and ioutil.ReadAll can yield
ReportResponses ==
  {[kind |-> k, data |-> ""] : k \in {"neterr", "readerr"}}
    \cup {[kind |-> "body", data |-> p] : p \in Payloads}

\* a request that is not sent has no response
NoExport == [kind |-> "none", status |-> 0, body |-> "none"]
NoReport == [kind |-> "none", data |-> ""]

\* the answers of the site to one GetSoldItemsReport call: the export form
\* is answered only for a home page that showed #user-controls, the report
\* URL only when the export answered 200 with a download link
FetchInputs ==
  {[home |-> h, export |-> NoExport, report |-> NoReport] :
     h \in {x \in HomeResponses : x.kind # "doc" \/ x.markers = 0}}
  \cup
  {[home |-> h, export |-> e, report |-> NoReport] :
     h \in {x \in HomeResponses : x.kind = "doc" /\ x.markers > 0},
     e \in {x \in ExportResponses : ~(x.status = 200 /\ x.body = "link")}}
  \cup
  {[home |-> h, export |-> e, report |-> r] :
     h \in {x \in HomeResponses : x.kind = "doc" /\ x.markers > 0},
     e \in {x \in ExportResponses : x.status = 200 /\ x.body = "link"},
     r \in ReportResponses}

\* the destination file: absent, whole, or cut short (opened and truncated
\* by a WriteFile that has not finished, or that failed)
NoFile == [state |-> "absent", data |-> ""]
Partial(f) == f.state \in {"writing", "failed"}

\* Downloader.LoggedIn
LoggedIn(home) == IF home.kind # "doc" THEN FALSE ELSE loginStatus(home)

NoForm == [token |-> "", start |-> 0, end |-> 0]

\* GetSoldItemsReport without the LoggedIn check
GetSoldItemsReportUnchecked(d, startDate, endDate, in) ==
  LET form == [token |-> d.token, start |-> startDate, end |-> endDate] IN
  IF in.export.status # 200
    THEN [err |-> "responded with", status |-> in.export.status, posted |-> TRUE,
          form |-> form, got |-> FALSE, data |-> ""]
  ELSE [err |-> NoErr, status |-> 200, posted |-> TRUE, form |-> form,
        got |-> TRUE, data |-> in.report.data]

\* GetSoldItemsReport refusing a start date after the end date
GetSoldItemsReportOrdered(d, startDate, endDate, in) ==
  LET form == [token |-> d.token, start |-> startDate, end |-> endDate] IN
  IF startDate > endDate \/ LoggedIn(in.home) = FALSE
    THEN [err |-> "Not logged in", status |-> 0, posted |-> FALSE, form |-> NoForm,
          got |-> FALSE, data |-> ""]
  ELSE [err |-> NoErr, status |-> 200, posted |-> TRUE, form |-> form,
        got |-> TRUE, data |-> in.report.data]

\* GetSoldItemsReport going on whatever the status of the export answer
GetSoldItemsReportAnyStatus(d, startDate, endDate, in) ==
  LET form == [token |-> d.token, start |-> startDate, end |-> endDate] IN
  IF LoggedIn(in.home) = FALSE
    THEN [err |-> "Not logged in", status |-> 0, posted |-> FALSE, form |-> NoForm,
          got |-> FALSE, data |-> ""]
  ELSE IF in.export.kind = "neterr"
    THEN [err |-> "Failed POSTing", status |-> 0, posted |-> TRUE, form |-> form,
          got |-> FALSE, data |-> ""]
  ELSE IF in.export.body = "readerr"
    THEN [err |-> "Failed to access results", status |-> in.export.status,
          posted |-> TRUE, form |-> form, got |-> FALSE, data |-> ""]
  ELSE IF in.export.body = "nolink"
    THEN [err |-> "Failed to find a download link", status |-> in.export.status,
          posted |-> TRUE, form |-> form, got |-> FALSE, data |-> ""]
  ELSE IF in.report.kind = "neterr"
    THEN [err |-> "Failed to download", status |-> in.export.status, posted |-> TRUE,
          form |-> form, got |-> TRUE, data |-> ""]
  ELSE IF in.report.kind = "readerr"
    THEN [err |-> "Failed to read report", status |-> in.export.status, posted |-> TRUE,
          form |-> form, got |-> TRUE, data |-> ""]
  ELSE [err |-> NoErr, status |-> in.export.status, posted |-> TRUE, form |-> form,
        got |-> TRUE, data |-> in.report.data]

\* Downloader.GetSoldItemsReport up to ioutil.ReadAll: the error returned
\* (NoErr when the report is ready to be written), the status it carries,
\* whether the export form was POSTed and with which fields, whether the
\* report URL was fetched, and the bytes read
GetSoldItemsReport(d, startDate, endDate, in) ==
  LET form == [token |-> d.token, start |-> startDate, end |-> endDate] IN
  IF LoggedIn(in.home) = FALSE
    THEN [err |-> "Not logged in", status |-> 0, posted |-> FALSE, form |-> NoForm,
          got |-> FALSE, data |-> ""]
  ELSE IF in.export.kind = "neterr"
    THEN [err |-> "Failed POSTing", status |-> 0, posted |-> TRUE, form |-> form,
          got |-> FALSE, data |-> ""]
  ELSE IF in.export.status # 200
    THEN [err |-> "responded with", status |-> in.export.status, posted |-> TRUE,
          form |-> form, got |-> FALSE, data |-> ""]
  ELSE IF in.export.body = "readerr"
    THEN [err |-> "Failed to access results", status |-> 200, posted |-> TRUE,
          form |-> form, got |-> FALSE, data |-> ""]
  ELSE IF in.export.body = "nolink"
    THEN [err |-> "Failed to find a download link", status |-> 200, posted |-> TRUE,
          form |-> form, got |-> FALSE, data |-> ""]
  ELSE IF in.report.kind = "neterr"
    THEN [err |-> "Failed to download", status |-> 200, posted |-> TRUE,
          form |-> form, got |-> TRUE, data |-> ""]
  ELSE IF in.report.kind = "readerr"
    THEN [err |-> "Failed to read report", status |-> 200, posted |-> TRUE,
          form |-> form, got |-> TRUE, data |-> ""]
  ELSE [err |-> NoErr, status |-> 200, posted |-> TRUE, form |-> form,
        got |-> TRUE, data |-> in.report.data]

NoFetch == [err |-> "not called", status |-> 0, posted |-> FALSE, form |-> NoForm,
            got |-> FALSE, data |-> ""]
NoCall == [state |-> "none", start |-> 0, end |-> 0, srv |-> FALSE, seen |-> FALSE,
           export |-> NoExport, res |-> NoFetch]

\* the answers the site gives to the cookies of the Downloader: the page
\* shows #user-controls to a logged-in session only
HomeOf(srv) == {h \in HomeResponses : h.markers > 0 => srv}

\* the site ends the session of the Downloader
SessionExpires ==
  /\ sess.made
  /\ srvSession
  /\ call.state # "writing"
  /\ srvSession' = FALSE
  /\ UNCHANGED <<loginIn, loginDone, loginRes, sess, liRes, call, file, svars, hvars>>

\* one call of d.LoggedIn()
CallLoggedIn ==
  /\ sess.made
  /\ call.state # "writing"
  /\ \E h \in HomeOf(srvSession) :
       liRes' = IF LoggedIn(h) THEN "true" ELSE "false"
  /\ UNCHANGED <<loginIn, loginDone, loginRes, sess, srvSession, call, file, svars, hvars>>

\* GetSoldItemsReport that removes the destination file when it fails
CallGetSoldItemsReportRemoving ==
  /\ sess.made
  /\ call.state # "writing"
  /\ \E startDate \in Days, endDate \in Days, in \in FetchInputs :
       /\ in.home \in HomeOf(srvSession)
       /\ LET r == GetSoldItemsReport(sess, startDate, endDate, in) IN
            /\ call' = [state |-> "done", start |-> startDate, end |-> endDate,
                        srv |-> srvSession, seen |-> LoggedIn(in.home),
                        export |-> in.export, res |-> r]
            /\ file' = IF r.err # NoErr THEN NoFile
                                         ELSE [state |-> "whole", data |-> r.data]
  /\ UNCHANGED <<loginIn, loginDone, loginRes, sess, srvSession, liRes, svars, hvars>>

\* one call of d.GetSoldItemsReport(p, startDate, endDate) up to the point
\* where ioutil.WriteFile has opened and truncated the destination file,
\* or has failed to open it
CallGetSoldItemsReport ==
  /\ sess.made
  /\ call.state # "writing"
  /\ \E startDate \in Days, endDate \in Days, in \in FetchInputs, opened \in BOOLEAN :
       /\ in.home \in HomeOf(srvSession)
       /\ LET r == GetSoldItemsReport(sess, startDate, endDate, in) IN
            IF r.err # NoErr
              THEN /\ call' = [state |-> "done", start |-> startDate, end |-> endDate,
                               srv |-> srvSession, seen |-> LoggedIn(in.home),
                               export |-> in.export, res |-> r]
                   /\ file' = file
            ELSE IF ~opened
              THEN /\ call' = [state |-> "done", start |-> startDate, end |-> endDate,
                               srv |-> srvSession, seen |-> LoggedIn(in.home),
                               export |-> in.export,
                               res |-> [r EXCEPT !.err = "Failed to write file"]]
                   /\ file' = file
            ELSE /\ call' = [state |-> "writing", start |-> startDate, end |-> endDate,
                             srv |-> srvSession, seen |-> LoggedIn(in.home),
                             export |-> in.export, res |-> r]
                 /\ file' = [state |-> "writing", data |-> r.data]
  /\ UNCHANGED <<loginIn, loginDone, loginRes, sess, srvSession, liRes, svars, hvars>>

\* ioutil.WriteFile writes the bytes and closes the file, or fails half way;
\* GetSoldItemsReport returns
WriteFileEnd ==
  /\ call.state = "writing"
  /\ \E written \in BOOLEAN :
       IF written
         THEN /\ file' = [file EXCEPT !.state = "whole"]
              /\ call' = [call EXCEPT !.state = "done"]
         ELSE /\ file' = [file EXCEPT !.state = "failed"]
              /\ call' = [call EXCEPT !.state = "done", !.res.err = "Failed to write file"]
  /\ UNCHANGED <<loginIn, loginDone, loginRes, sess, srvSession, liRes, svars, hvars>>

\* ------------------------------------------------------------- orchestration

Fetchers == {"downloadSoldItemsReport", "fakeDownload"}

\* t.AddDate(0, 0, -7)
Week == 7

\* a downloadAll call that has just been entered: no Downloader yet (dl,
\* token), no goroutine launched (pending), none returned (done, in the order
\* of their return), none that logged an error (failed), no WriteFile under
\* way (writing)
NewOrch(n) ==
  [id |-> n, phase |-> "auth", pending |-> {}, dl |-> 0, token |-> "",
   done |-> <<>>, failed |-> {}, writing |-> FALSE]

\* update() calls downloadAll(): a new orchestration, the caller waits for it
StartUpdate ==
  /\ orchs' = orchs \cup {NewOrch(nStarted + 1)}
  /\ nStarted' = nStarted + 1
  /\ cur' = nStarted + 1
  /\ runStart' = now
  /\ loopPc' = "update"

\* one ticker created before the loop: ticks at the multiples of the interval
TickFixedRate(t) == ((t \div interval) + 1) * interval

\* one ticker kept across iterations, whose tick that fell during update()
\* waits in the channel
TickQueued(t) == IF t >= runStart + interval THEN t ELSE runStart + interval

\* time.Tick(updateInterval) evaluated at instant t: the first tick of the new ticker
TickDeadline(t) == t + interval

\* the tick branch served for a tick that fell during the orchestration
TickReadyCaughtUp == now >= runStart + interval

\* case <-time.Tick(updateInterval) can proceed
TickReady == now >= tickAt

\* case <-done taken only once the interval has elapsed as well
DoneReadyAfterTick == doneClosed /\ now >= tickAt

\* case <-done can proceed
DoneReady == doneClosed

\* downloadManager entering its loop without the initial update()
LoopEntryNoUpdate ==
  /\ alive
  /\ loopPc = "entry"
  /\ loopPc' = "select"
  /\ tickAt' = now + interval
  /\ UNCHANGED <<now, interval, alive, exitCause, doneClosed, closedAt, cancelAt,
                 mainPc, intPc, intAt, cur, nStarted, runStart, busy, orchs, dvars, file, hvars>>

\* downloadManager: the initial update() before the loop
LoopEntry ==
  /\ alive
  /\ loopPc = "entry"
  /\ StartUpdate
  /\ UNCHANGED <<now, interval, alive, exitCause, doneClosed, closedAt, cancelAt,
                 mainPc, intPc, intAt, tickAt, busy, dvars, file, hvars>>

\* the tick branch with update() run in a goroutine of its own
LoopSelectTickAsync ==
  /\ alive
  /\ loopPc = "select"
  /\ TickReady
  /\ orchs' = orchs \cup {NewOrch(nStarted + 1)}
  /\ nStarted' = nStarted + 1
  /\ runStart' = now
  /\ tickAt' = TickDeadline(now)
  /\ UNCHANGED <<now, interval, alive, exitCause, doneClosed, closedAt, cancelAt,
                 mainPc, intPc, intAt, loopPc, cur, busy, dvars, file, hvars>>

\* select: case <-time.Tick(updateInterval): update()
LoopSelectTick ==
  /\ alive
  /\ loopPc = "select"
  /\ TickReady
  /\ StartUpdate
  /\ UNCHANGED <<now, interval, alive, exitCause, doneClosed, closedAt, cancelAt,
                 mainPc, intPc, intAt, tickAt, busy, dvars, file, hvars>>

\* select: case <-done: return
LoopSelectDone ==
  /\ alive
  /\ loopPc = "select"
  /\ DoneReady
  /\ loopPc' = "stopped"
  /\ UNCHANGED <<now, interval, alive, exitCause, doneClosed, closedAt, cancelAt,
                 mainPc, intPc, intAt, tickAt, cur, nStarted, runStart, busy,
                 orchs, dvars, file, hvars>>

\* downloadAll with one Downloader kept for all ticks
DownloadAllAuthShared(o) ==
  /\ alive
  /\ o \in orchs
  /\ o.phase = "auth"
  /\ \E in \in LoginInputs :
       IF New(in).ok
         THEN /\ orchs' = (orchs \ {o}) \cup
                   {[o EXCEPT !.phase = "fetch", !.pending = Fetchers,
                              !.dl = 1, !.token = New(in).token]}
              /\ nDownloaders' = 1
              /\ nLaunched' = nLaunched + Cardinality(Fetchers)
              /\ UNCHANGED <<alive, exitCause>>
         ELSE /\ orchs' = orchs \ {o}
              /\ nDownloaders' = 1
              /\ alive' = FALSE
              /\ exitCause' = "fatal"
              /\ UNCHANGED nLaunched
  /\ UNCHANGED <<now, interval, doneClosed, closedAt, cancelAt, mainPc, intPc,
                 intAt, loopPc, tickAt, cur, nStarted, runStart, busy, dvars,
                 file, usedBy>>

\* downloadAll going on to launch the download functions when New failed
DownloadAllAuthIgnoringError(o) ==
  /\ alive
  /\ o \in orchs
  /\ o.phase = "auth"
  /\ \E in \in LoginInputs :
       orchs' = (orchs \ {o}) \cup
          {[o EXCEPT !.phase = "fetch", !.pending = Fetchers,
                     !.dl = nDownloaders + 1, !.token = New(in).token]}
  /\ nDownloaders' = nDownloaders + 1
  /\ nLaunched' = nLaunched + Cardinality(Fetchers)
  /\ UNCHANGED <<now, interval, alive, exitCause, doneClosed, closedAt, cancelAt,
                 mainPc, intPc, intAt, loopPc, tickAt, cur, nStarted, runStart,
                 busy, dvars, file, usedBy>>

\* downloadAll: download.New constructs a Downloader and logs in; on error
\* update() ends the process with log.Fatalln, otherwise one goroutine per
\* download function is launched with that Downloader
DownloadAllAuth(o) ==
  /\ alive
  /\ o \in orchs
  /\ o.phase = "auth"
  /\ \E in \in LoginInputs :
       IF New(in).ok
         THEN /\ orchs' = (orchs \ {o}) \cup
                   {[o EXCEPT !.phase = "fetch", !.pending = Fetchers,
                              !.dl = nDownloaders + 1, !.token = New(in).token]}
              /\ nLaunched' = nLaunched + Cardinality(Fetchers)
              /\ UNCHANGED <<alive, exitCause>>
         ELSE /\ orchs' = orchs \ {o}
              /\ alive' = FALSE
              /\ exitCause' = "fatal"
              /\ UNCHANGED nLaunched
  /\ nDownloaders' = nDownloaders + 1
  /\ UNCHANGED <<now, interval, doneClosed, closedAt, cancelAt, mainPc, intPc,
                 intAt, loopPc, tickAt, cur, nStarted, runStart, busy, dvars,
                 file, usedBy>>

\* the outcome of a download function: it has returned, with or without
\* having logged an error
Returned(o, f, failed) ==
  [o EXCEPT !.pending = @ \ {f}, !.done = Append(@, f),
            !.failed = IF failed THEN @ \cup {f} ELSE @,
            !.writing = IF f = "downloadSoldItemsReport" THEN FALSE ELSE @]

\* a download function whose error makes the other goroutines give up
FetcherDoneCancelling(o, f) ==
  /\ alive
  /\ o \in orchs
  /\ o.phase = "fetch"
  /\ f \in o.pending
  /\ orchs' = (orchs \ {o}) \cup
        {[o EXCEPT !.pending = {}, !.done = Append(@, f), !.failed = @ \cup {f}]}
  /\ usedBy' = usedBy \cup {<<o.dl, o.id, f>>}
  /\ UNCHANGED <<now, interval, alive, exitCause, doneClosed, closedAt, cancelAt,
                 mainPc, intPc, intAt, loopPc, tickAt, cur, nStarted, runStart,
                 busy, dvars, file, nDownloaders, nLaunched>>

\* one download function runs with the Downloader of its tick.
\* fakeDownload logs and returns (defer wg.Done()); downloadSoldItemsReport
\* calls d.GetSoldItemsReport for the past week: on an error it logs it and
\* returns, otherwise ioutil.WriteFile has opened and truncated the file
FetcherDone(o, f) ==
  /\ alive
  /\ o \in orchs
  /\ o.phase = "fetch"
  /\ f \in o.pending
  /\ ~(f = "downloadSoldItemsReport" /\ o.writing)
  /\ usedBy' = usedBy \cup {<<o.dl, o.id, f>>}
  /\ IF f = "fakeDownload"
       THEN /\ orchs' = (orchs \ {o}) \cup {Returned(o, f, FALSE)}
            /\ file' = file
       ELSE \E in \in FetchInputs, opened \in BOOLEAN :
              LET r == GetSoldItemsReport([made |-> TRUE, token |-> o.token],
                                          MaxDay - Week, MaxDay, in) IN
                IF r.err # NoErr \/ ~opened
                  THEN /\ orchs' = (orchs \ {o}) \cup {Returned(o, f, TRUE)}
                       /\ file' = file
                  ELSE /\ orchs' = (orchs \ {o}) \cup {[o EXCEPT !.writing = TRUE]}
                       /\ file' = [state |-> "writing", data |-> r.data]
  /\ UNCHANGED <<now, interval, alive, exitCause, doneClosed, closedAt, cancelAt,
                 mainPc, intPc, intAt, loopPc, tickAt, cur, nStarted, runStart,
                 busy, dvars, nDownloaders, nLaunched>>

\* downloadSoldItemsReport returning while the bytes are still being written
FetcherWriteDetached(o) ==
  /\ alive
  /\ o \in orchs
  /\ o.writing
  /\ orchs' = (orchs \ {o}) \cup {Returned(o, "downloadSoldItemsReport", FALSE)}
  /\ UNCHANGED <<now, interval, alive, exitCause, doneClosed, closedAt, cancelAt,
                 mainPc, intPc, intAt, loopPc, tickAt, cur, nStarted, runStart,
                 busy, dvars, file, hvars>>

\* ioutil.WriteFile writes the bytes and closes the file, or fails half way;
\* GetSoldItemsReport and downloadSoldItemsReport return
FetcherWriteEnd(o) ==
  /\ alive
  /\ o \in orchs
  /\ o.writing
  /\ \E written \in BOOLEAN :
       /\ file' = [file EXCEPT !.state = IF written THEN "whole" ELSE "failed"]
       /\ orchs' = (orchs \ {o}) \cup {Returned(o, "downloadSoldItemsReport", ~written)}
  /\ UNCHANGED <<now, interval, alive, exitCause, doneClosed, closedAt, cancelAt,
                 mainPc, intPc, intAt, loopPc, tickAt, cur, nStarted, runStart,
                 busy, dvars, hvars>>

\* downloadAll returning without waiting for its goroutines
DownloadAllReturnEarly(o) ==
  /\ alive
  /\ o \in orchs
  /\ o.phase = "fetch"
  /\ orchs' = orchs \ {o}
  /\ IF loopPc = "update" /\ cur = o.id
       THEN /\ loopPc' = "select"
            /\ tickAt' = TickDeadline(now)
            /\ busy' = busy + (now - runStart)
       ELSE UNCHANGED <<loopPc, tickAt, busy>>
  /\ UNCHANGED <<now, interval, alive, exitCause, doneClosed, closedAt, cancelAt,
                 mainPc, intPc, intAt, cur, nStarted, runStart, dvars, file, hvars>>

\* wg.Wait() returns, downloadAll returns nil, update() returns and the
\* loop evaluates its select: a new ticker is created
DownloadAllReturn(o) ==
  /\ alive
  /\ o \in orchs
  /\ o.phase = "fetch"
  /\ o.pending = {}
  /\ orchs' = orchs \ {o}
  /\ IF loopPc = "update" /\ cur = o.id
       THEN /\ loopPc' = "select"
            /\ tickAt' = TickDeadline(now)
            /\ busy' = busy + (now - runStart)
       ELSE UNCHANGED <<loopPc, tickAt, busy>>
  /\ UNCHANGED <<now, interval, alive, exitCause, doneClosed, closedAt, cancelAt,
                 mainPc, intPc, intAt, cur, nStarted, runStart, dvars, file, hvars>>

\* ------------------------------------------------------------------ lifecycle

\* main: time.Sleep(3 * time.Minute); close(done)
MainCutoff ==
  /\ alive
  /\ mainPc = "sleep"
  /\ now >= MaxRun
  /\ IF doneClosed
       THEN /\ alive' = FALSE
            /\ exitCause' = "panic"
            /\ UNCHANGED <<doneClosed, closedAt, mainPc>>
       ELSE /\ doneClosed' = TRUE
            /\ closedAt' = now
            /\ mainPc' = "closed"
            /\ UNCHANGED <<alive, exitCause>>
  /\ UNCHANGED <<now, interval, cancelAt, intPc, intAt, loopPc, tickAt, cur,
                 nStarted, runStart, busy, orchs, dvars, file, hvars>>

\* main returns: the process ends with every goroutine
MainReturn ==
  /\ alive
  /\ mainPc = "closed"
  /\ alive' = FALSE
  /\ exitCause' = "cutoff"
  /\ mainPc' = "returned"
  /\ UNCHANGED <<now, interval, doneClosed, closedAt, cancelAt, intPc, intAt,
                 loopPc, tickAt, cur, nStarted, runStart, busy, orchs, dvars, file, hvars>>

\* catchCtrlC: <-c; close(done)
Interrupt ==
  /\ alive
  /\ intPc = "wait"
  /\ intAt' = now
  /\ IF doneClosed
       THEN /\ alive' = FALSE
            /\ exitCause' = "panic"
            /\ UNCHANGED <<doneClosed, closedAt, intPc>>
       ELSE /\ doneClosed' = TRUE
            /\ closedAt' = now
            /\ intPc' = "grace"
            /\ UNCHANGED <<alive, exitCause>>
  /\ UNCHANGED <<now, interval, cancelAt, mainPc, loopPc, tickAt, cur, nStarted,
                 runStart, busy, orchs, dvars, file, hvars>>

\* catchCtrlC with the goroutine ending instead of the process
InterruptGoroutineEnds ==
  /\ alive
  /\ intPc = "grace"
  /\ now >= intAt + Grace
  /\ intPc' = "ended"
  /\ UNCHANGED <<now, interval, alive, exitCause, doneClosed, closedAt, cancelAt,
                 mainPc, intAt, loopPc, tickAt, cur, nStarted, runStart, busy,
                 orchs, dvars, file, hvars>>

\* catchCtrlC: time.Sleep(8 * time.Second); os.Exit(1)
InterruptExit ==
  /\ alive
  /\ intPc = "grace"
  /\ now >= intAt + Grace
  /\ alive' = FALSE
  /\ exitCause' = "interrupt"
  /\ intPc' = "exited"
  /\ UNCHANGED <<now, interval, doneClosed, closedAt, cancelAt, mainPc, intAt,
                 loopPc, tickAt, cur, nStarted, runStart, busy, orchs, dvars, file, hvars>>

\* the caller of a stand-alone downloadManager closes done
CallerCancel ==
  /\ alive
  /\ mainPc = "caller"
  /\ now >= cancelAt
  /\ doneClosed' = TRUE
  /\ closedAt' = now
  /\ mainPc' = "cancelled"
  /\ UNCHANGED <<now, interval, alive, exitCause, cancelAt, intPc, intAt, loopPc,
                 tickAt, cur, nStarted, runStart, busy, orchs, dvars, file, hvars>>

\* a sleeper or a select that is due runs before the clock moves on
Due ==
  \/ mainPc = "sleep" /\ now >= MaxRun
  \/ mainPc = "closed"
  \/ mainPc = "caller" /\ now >= cancelAt
  \/ intPc = "grace" /\ now >= intAt + Grace
  \/ loopPc = "entry"
  \/ loopPc = "select" /\ (TickReady \/ DoneReady)

\* the instants at which a sleeper or the ticker of the select wakes up
Deadlines ==
  (IF mainPc = "sleep" THEN {MaxRun} ELSE {})
    \cup (IF mainPc = "caller" THEN {cancelAt} ELSE {})
    \cup (IF intPc = "grace" THEN {intAt + Grace} ELSE {})
    \cup (IF loopPc = "select" THEN {tickAt} ELSE {})

\* the instant the clock moves to
Advance ==
  LET cand == {now + Quantum} \cup {d \in Deadlines : d > now}
  IN CHOOSE t \in cand : \A u \in cand : t <= u

\* time passes
Tick ==
  /\ alive
  /\ now < MaxTime
  /\ ~Due
  /\ now' = Advance
  /\ UNCHANGED <<interval, alive, exitCause, doneClosed, closedAt, cancelAt,
                 mainPc, intPc, intAt, loopPc, tickAt, cur, nStarted, runStart,
                 busy, orchs, dvars, file, hvars>>

\* ------------------------------------------------------------- specifications

InitCommon ==
  /\ now = 0
  /\ alive = TRUE
  /\ exitCause = "none"
  /\ doneClosed = FALSE
  /\ closedAt = NoTime
  /\ intAt = NoTime
  /\ loopPc = "entry"
  /\ tickAt = NoTime
  /\ cur = 0
  /\ nStarted = 0
  /\ runStart = NoTime
  /\ busy = 0
  /\ orchs = {}
  /\ loginIn = NoInput
  /\ loginDone = FALSE
  /\ loginRes = NoResult
  /\ sess = NoSess
  /\ srvSession = FALSE
  /\ liRes = "none"
  /\ call = NoCall
  /\ file = NoFile
  /\ nDownloaders = 0
  /\ nLaunched = 0
  /\ usedBy = {}

\* the program: main has started downloadManager and catchCtrlC and sleeps
Init ==
  /\ InitCommon
  /\ interval \in Intervals
  /\ cancelAt = NoTime
  /\ mainPc = "sleep"
  /\ intPc = "wait"

Orchestration ==
  \E o \in orchs :
    \/ DownloadAllAuth(o)
    \/ \E f \in Fetchers : FetcherDone(o, f)
    \/ FetcherWriteEnd(o)
    \/ DownloadAllReturn(o)

Next ==
  \/ LoopEntry
  \/ LoopSelectTick
  \/ LoopSelectDone
  \/ Orchestration
  \/ MainCutoff
  \/ MainReturn
  \/ Interrupt
  \/ InterruptExit
  \/ Tick

Spec == Init /\ [][Next]_vars

\* downloadManager alone, called with a one minute interval by a caller
\* that closes done at a chosen instant
InitSched ==
  /\ InitCommon
  /\ interval = ScenarioInterval
  /\ cancelAt \in CancelTimes
  /\ mainPc = "caller"
  /\ intPc = "none"

NextSched ==
  \/ LoopEntry
  \/ LoopSelectTick
  \/ LoopSelectDone
  \/ Orchestration
  \/ CallerCancel
  \/ Tick

SpecSched == InitSched /\ [][NextSched]_vars

\* the same, with every goroutine that can take a step taking one in the
\* end: the loop and the caller are scheduled, every request of an
\* orchestration is answered, and time passes
SpecSchedFair == SpecSched /\ WF_vars(NextSched)

\* download.New alone, against every answer of the site
InitLogin ==
  /\ now = 0
  /\ interval = DefaultInterval
  /\ alive = FALSE
  /\ exitCause = "none"
  /\ doneClosed = FALSE
  /\ closedAt = NoTime
  /\ cancelAt = NoTime
  /\ mainPc = "none"
  /\ intPc = "none"
  /\ intAt = NoTime
  /\ loopPc = "none"
  /\ tickAt = NoTime
  /\ cur = 0
  /\ nStarted = 0
  /\ runStart = NoTime
  /\ busy = 0
  /\ orchs = {}
  /\ loginIn \in LoginInputs
  /\ loginDone = FALSE
  /\ loginRes = NoResult
  /\ sess = NoSess
  /\ srvSession = FALSE
  /\ liRes = "none"
  /\ call = NoCall
  /\ file = NoFile
  /\ nDownloaders = 0
  /\ nLaunched = 0
  /\ usedBy = {}

NextLogin == CallNew

\* the answers to New a caller of the download package is run against
InitFetch ==
  /\ InitLogin
  /\ loginIn.post.status \in {0, 200}
  /\ loginIn.post.markers <= 1

SpecLogin == InitLogin /\ [][NextLogin]_vars

\* a caller of the download package: New, then LoggedIn and
\* GetSoldItemsReport calls on the Downloader it returned, against a site
\* that may end the session
NextFetch ==
  \/ CallNew
  \/ SessionExpires
  \/ CallLoggedIn
  \/ CallGetSoldItemsReport
  \/ WriteFileEnd

SpecFetch == InitFetch /\ [][NextFetch]_vars

\* --------------------------------------------------------------- properties

\* C1: close(done) is never executed on a channel that is already closed
\* (the run-time panic "close of closed channel" never ends the process).
C1_NoDoubleClose == exitCause # "panic"

\* C2: a tick whose authentication fails never ends the process.
C2_FailedTickKeepsRunning == exitCause # "fatal"

\* C3 as stated: with a one minute interval and the signal fired at 3m30s
\* the loop has run exactly 4 orchestrations when it returns.
C3_ExactlyFourRuns ==
  (loopPc = "stopped" /\ cancelAt = ScenarioCancel) => nStarted = 4

\* C3 as amended: every interval is counted from the end of the previous
\* orchestration, so the n-th orchestration starts (n-1) intervals plus the
\* time spent in the earlier ones after the entry; with the signal fired at
\* 3m30s the loop returns after at most 4 orchestrations, after exactly 4
\* only if the fourth had started by 3m30s, and after fewer only if the
\* orchestrations run so far took at least the 30 seconds of slack.
C3_RunsFollowDrift ==
  LET k == ScenarioCancel \div interval
      slack == ScenarioCancel - k * interval
  IN /\ loopPc = "update" /\ cur = nStarted => runStart = (nStarted - 1) * interval + busy
     /\ loopPc \in {"select", "stopped"} => tickAt = nStarted * interval + busy
     /\ (loopPc = "stopped" /\ cancelAt = ScenarioCancel) =>
          /\ nStarted <= k + 1
          /\ nStarted = k + 1 => runStart <= ScenarioCancel
          /\ nStarted < k + 1 => busy >= slack

\* C3 witness: the loop has returned after four orchestrations, the first
\* three of which took time.
C3_Witness ==
  /\ loopPc = "stopped"
  /\ cancelAt = ScenarioCancel
  /\ nStarted = 4
  /\ runStart > 3 * interval

\* C4 as stated: one interval after the signal was fired the loop has returned.
C4_ReturnsWithinInterval ==
  (alive /\ doneClosed /\ now > closedAt + interval) => loopPc = "stopped"

\* C4 as amended: once the signal has been fired the loop lets no time pass
\* in its select: at any later instant it has returned, or it is still
\* executing an orchestration that started no later than the instant of the
\* signal, or that orchestration has ended at this very instant.
C4_ReturnsAfterInFlight ==
  (alive /\ doneClosed /\ now > closedAt) =>
     \/ loopPc = "stopped"
     \/ loopPc = "update" /\ runStart <= closedAt
     \/ loopPc = "select" /\ runStart <= closedAt /\ now = tickAt - interval

\* C4 witness: the loop returned more than one interval after the signal,
\* when the orchestration in flight had ended.
C4_Witness ==
  /\ loopPc = "stopped"
  /\ closedAt # NoTime
  /\ tickAt - interval > closedAt + interval

\* C5: the loop is past its entry only with a first orchestration started,
\* and that orchestration started at the instant of the entry.
C5_FirstRunOnEntry ==
  /\ loopPc # "entry" => nStarted >= 1
  /\ nStarted = 1 => runStart = 0

\* C5 witness: the first orchestration runs although done was already closed
\* when the loop was entered.
C5_Witness ==
  /\ loopPc = "update"
  /\ nStarted = 1
  /\ doneClosed
  /\ closedAt = 0

\* C6: the process never ends by the max-run cutoff with an orchestration
\* in flight.
C6_CutoffLetsRunFinish == (~alive /\ orchs # {}) => exitCause # "cutoff"

\* C7: the signal that stops the downloads is fired by the operator only.
C7_OnlyOperatorStops == doneClosed => intAt # NoTime

\* C8 as stated: an orchestration still in flight one interval after its
\* start has been followed by the start of the next one.
C8_NextTickStartsAnyway ==
  (alive /\ ~doneClosed /\ orchs # {}) => now <= runStart + interval

\* C8 as amended: the loop runs update() inside the select branch, so at most
\* one orchestration is in flight and the loop waits for a tick only when
\* none is.
C8_OneRunAtATime ==
  /\ Cardinality(orchs) <= 1
  /\ loopPc \in {"entry", "select", "stopped"} => orchs = {}
  /\ \A o \in orchs : o.id = nStarted

\* C8 witness: the second orchestration is in flight, started after a first
\* one that took longer than the interval.
C8_Witness ==
  /\ nStarted = 2
  /\ busy > interval
  /\ Cardinality(orchs) = 1

\* C9: once the interrupt is received done is closed, and the process is not
\* alive later than the grace period after it.
C9_ExitWithinGrace ==
  intAt # NoTime => /\ doneClosed
                    /\ alive => now <= intAt + Grace

\* C9 witness: the process was ended by os.Exit at the end of the grace
\* period while an orchestration was in flight and the loop had not returned.
C9_Witness ==
  /\ exitCause = "interrupt"
  /\ now = intAt + Grace
  /\ loopPc = "update"
  /\ orchs # {}

\* C10: when the login page yielded a non-empty token, New succeeds exactly
\* when the login POST returned a document carrying #user-controls,
\* whatever the status code.
C10_LoginIffMarker ==
  (loginDone /\ loginIn.lp.kind = "doc" /\ authToken(loginIn.lp) # "") =>
     (loginRes.ok <=> (loginIn.post.kind = "doc" /\ loginIn.post.markers > 0))

\* C10 witness: New succeeded on a response whose status is not 200.
C10_Witness ==
  /\ loginDone
  /\ loginRes.ok
  /\ loginIn.post.status = 500

C12_StartAfterEndRejected ==
  call.state # "none" =>
    /\ call.start > call.end => (~call.res.posted /\ call.res.err # NoErr)
    /\ (call.start = call.end /\ call.seen) => call.res.posted

\* C12 as amended: GetSoldItemsReport does not compare the dates; whenever
\* LoggedIn answers true the export form is POSTed with the dates as given,
\* in whatever order they are, and only the answer of the site can reject
\* them.
C12_DatesNotCompared ==
  call.state # "none" =>
    /\ call.res.posted <=> call.seen
    /\ call.res.posted => (call.res.form.start = call.start /\ call.res.form.end = call.end)

\* C12 witness: a request with the start date after the end date was
\* submitted and its report written.
C12_Witness ==
  /\ call.state = "done"
  /\ call.start > call.end
  /\ call.res.posted
  /\ call.res.err = NoErr
  /\ file.state = "whole"

\* C15 as stated: after a failed GetSoldItemsReport call the destination
\* does not hold a whole report of an earlier call.
C15_OldFileGone ==
  (call.state = "done" /\ call.res.err # NoErr) => file.state # "whole"

\* C15 as amended: a call that fails before ioutil.WriteFile has opened the
\* destination leaves the file exactly as it was.
C15_FailureKeepsOldFile ==
  [][(call.state # "writing" /\ call'.state = "done" /\ call'.res.err # NoErr)
       => file' = file]_vars

\* C15 witness: the latest call failed and the report of an earlier call is
\* still in place.
C15_Witness ==
  /\ call.state = "done"
  /\ call.res.err = "responded with"
  /\ file.state = "whole"

\* C20: the Downloader returned by New carries a non-empty token, the value
\* of the first authenticity_token input of the login page of that Login
\* run, whatever LoggedIn and GetSoldItemsReport calls have followed.
C20_TokenFromLoginPage ==
  sess.made =>
    /\ sess.token # ""
    /\ Len(loginIn.lp.inputs) > 0
    /\ sess.token = loginIn.lp.inputs[1]

\* C20 witness: LoggedIn and GetSoldItemsReport have been called on a
\* Downloader whose login page carried two different token inputs.
C20_Witness ==
  /\ sess.made
  /\ liRes # "none"
  /\ call.state = "done"
  /\ call.res.posted
  /\ Len(loginIn.lp.inputs) = 2
  /\ loginIn.lp.inputs[1] # loginIn.lp.inputs[2]

\* C13: a step in which a download function logs a failure leaves the
\* process running and changes nothing for the other download functions of
\* the tick: those still running keep running, those that have returned
\* keep their outcome.
C13_FailureLeavesSiblings ==
  [][\A o \in orchs : \A o2 \in orchs' :
       (o2.id = o.id /\ o2.failed # o.failed) =>
          /\ alive'
          /\ o2.phase = "fetch"
          /\ \E f \in o.pending :
               /\ o2.failed = o.failed \cup {f}
               /\ o2.pending = o.pending \ {f}
               /\ o2.done = Append(o.done, f)]_vars

\* C13 witness: fakeDownload returned after downloadSoldItemsReport had
\* failed, and downloadAll can return.
C13_Witness ==
  \E o \in orchs :
    /\ o.done = <<"downloadSoldItemsReport", "fakeDownload">>
    /\ o.failed = {"downloadSoldItemsReport"}
    /\ o.pending = {}

\* C14 as stated: the destination file never holds a partial payload.
C14_NeverPartial == ~Partial(file)

\* C14 as amended: the destination file holds a payload cut short only
\* while the ioutil.WriteFile of a fetcher is under way, or after the
\* process ended during that write, or after that write failed; in every
\* other state the file is absent or holds the whole payload of one
\* download, and at most one fetcher writes it at a time.
C14_PartialOnlyDuringWrite ==
  /\ file.state = "writing" => \E o \in orchs : o.writing
  /\ file.state = "whole" => file.data \in Payloads
  /\ Cardinality({o \in orchs : o.writing}) <= 1
  /\ \A o \in orchs : o.writing => file.state = "writing"

\* C14 witness: os.Exit at the end of the grace period has left the file
\* cut short.
C14_Witness ==
  /\ exitCause = "interrupt"
  /\ file.state = "writing"

\* C16: download goroutines are launched only by the step in which
\* download.New returns a Downloader (with its token) to a downloadAll call
\* that had launched none, and the step in which New fails launches none and
\* ends the tick; a downloadAll call that has no Downloader yet has no
\* goroutine.
C16_FetchersAfterAuth ==
  /\ [](\A o \in orchs : o.phase = "auth" =>
          (o.pending = {} /\ o.done = <<>> /\ ~o.writing))
  /\ [](\A o \in orchs : o.phase = "fetch" => (o.token # "" /\ o.dl > 0))
  /\ [][nLaunched' # nLaunched =>
          \E o \in orchs : \E o2 \in orchs' :
             /\ o.phase = "auth"
             /\ o2.id = o.id
             /\ o2.phase = "fetch"
             /\ o2.pending = Fetchers
             /\ nLaunched' = nLaunched + Cardinality(Fetchers)]_vars
  /\ [][nDownloaders' # nDownloaders /\ (\A o2 \in orchs' : o2.phase # "fetch") =>
          (nLaunched' = nLaunched /\ exitCause' = "fatal")]_vars

\* C16 witness: the second tick failed to authenticate; only the goroutines
\* of the first were launched.
C16_Witness ==
  /\ exitCause = "fatal"
  /\ nStarted = 2
  /\ nLaunched = Cardinality(Fetchers)

\* C17: a downloadAll call ends in two ways only: it returns nil, with every
\* goroutine it launched returned, whatever errors they logged, and the
\* process goes on; or download.New failed and its error ends the process.
C17_ReturnsAfterAllFetchers ==
  [][\A o \in orchs : (\A o2 \in orchs' : o2.id # o.id) =>
       \/ /\ o.phase = "fetch"
          /\ o.pending = {}
          /\ ~o.writing
          /\ Len(o.done) = Cardinality(Fetchers)
          /\ alive'
       \/ /\ o.phase = "auth"
          /\ exitCause' = "fatal"]_vars

\* C17 witness: the report of the first tick could not be written, and
\* downloadAll has returned nil to a loop that waits for its next tick.
C17_Witness ==
  /\ alive
  /\ nStarted = 1
  /\ loopPc = "select"
  /\ file.state = "failed"

\* C18: the loop returns only after the signal was fired, no orchestration
\* starts once it has returned, and once the signal is fired the loop
\* eventually returns.
C18_StopsAfterSignal ==
  /\ [](loopPc = "stopped" => doneClosed)
  /\ [][loopPc = "stopped" => (loopPc' = "stopped" /\ nStarted' = nStarted)]_vars
  /\ (doneClosed ~> loopPc = "stopped")

\* C19: every downloadAll call works with a Downloader constructed by
\* itself; the download functions of one tick all run with that one, and no
\* Downloader runs the download functions of two ticks.
C19_DownloaderPerTick ==
  /\ \A o \in orchs : o.phase = "fetch" => o.dl = nDownloaders
  /\ \A p \in usedBy, q \in usedBy :
       /\ p[1] = q[1] => p[2] = q[2]
       /\ p[2] = q[2] => p[1] = q[1]

\* C19 witness: the download functions of a second tick run with a second
\* Downloader.
C19_Witness ==
  /\ <<1, 1, "downloadSoldItemsReport">> \in usedBy
  /\ <<1, 1, "fakeDownload">> \in usedBy
  /\ <<2, 2, "downloadSoldItemsReport">> \in usedBy
  /\ <<2, 2, "fakeDownload">> \in usedBy

\* C21: a login page without an authenticity_token input gives the empty
\* token, New fails through Login's "Failed to find authenticity_token",
\* and the login form is not POSTed, whatever the site would have answered.
C21_NoTokenNoPost ==
  (loginDone /\ loginIn.lp.kind = "doc" /\ loginIn.lp.inputs = <<>>) =>
     /\ authToken(loginIn.lp) = ""
     /\ Login(loginIn).err = "Failed to find authenticity_token"
     /\ ~Login(loginIn).posted
     /\ ~loginRes.ok
     /\ ~loginRes.posted
     /\ loginRes.token = ""
     /\ ~sess.made

\* C21 witness: New has failed on a page without the input although the
\* site would have answered the POST with a logged-in page.
C21_Witness ==
  /\ loginDone
  /\ loginIn.lp.kind = "doc"
  /\ loginIn.lp.inputs = <<>>
  /\ loginIn.post.kind = "doc"
  /\ loginIn.post.status = 200
  /\ loginIn.post.markers > 0
  /\ ~loginRes.ok

\* C22: a GetSoldItemsReport call whose export POST was answered with a
\* status other than 200 returns the "responded with" error carrying that
\* status, has not fetched the report URL, and has left the destination
\* file as it was.
C22_Non200StopsFetch ==
  /\ [](call.export.kind = "resp" /\ call.export.status # 200 =>
          /\ call.state = "done"
          /\ call.res.posted
          /\ call.res.err = "responded with"
          /\ call.res.status = call.export.status
          /\ ~call.res.got)
  /\ [][(call' # call /\ call'.export.kind = "resp" /\ call'.export.status # 200) =>
          file' = file]_vars

\* C22 witness: the export answered 500 with a page that carries a download
\* link, while a report of an earlier call is on disk.
C22_Witness ==
  /\ call.export = [kind |-> "resp", status |-> 500, body |-> "link"]
  /\ call.res.posted
  /\ file.state = "whole"

\* C23: an orchestration is started after the signal only by a loop that was
\* entering, or that was waiting in its select when the signal was fired at
\* the very instant of its tick; a signal fired while an orchestration is
\* in flight is followed by no start: the select evaluated after that
\* orchestration finds its new ticker not ready, and the only step the loop
\* takes from it is the return.
C23_NoStartAfterInFlightSignal ==
  /\ [][(doneClosed /\ nStarted' # nStarted) =>
          \/ loopPc = "entry"
          \/ loopPc = "select" /\ closedAt = now /\ runStart + interval <= now]_vars
  /\ [](loopPc = "select" /\ doneClosed /\ closedAt < now => ~TickReady)
  /\ [][(loopPc = "select" /\ doneClosed /\ closedAt < now /\ loopPc' # loopPc) =>
          (loopPc' = "stopped" /\ nStarted' = nStarted)]_vars

\* C23 witness: the signal was fired during the first orchestration, and
\* the loop has returned after it without starting another.
C23_Witness ==
  /\ alive
  /\ loopPc = "stopped"
  /\ nStarted = 1
  /\ closedAt > 0
  /\ busy > closedAt

\* C24: an orchestration other than the first starts exactly one interval
\* after the loop came back to its select, whatever the time the earlier
\* orchestration took, and the loop lets no tick instant pass in its
\* select; at any instant T at most 1 + floor(T / interval) orchestrations
\* have been started.
C24_FullIntervalBetweenRuns ==
  /\ [](nStarted <= 1 + (now \div interval))
  /\ [](loopPc = "select" => now <= tickAt)
  /\ [][(nStarted' # nStarted /\ nStarted >= 1) =>
          /\ loopPc = "select"
          /\ orchs = {}
          /\ now = tickAt
          /\ now = busy + nStarted * interval
          /\ runStart' >= runStart + interval]_vars
  /\ [][(loopPc = "update" /\ loopPc' = "select") =>
          (tickAt' = now + interval /\ busy' = busy + (now - runStart))]_vars

\* C24 witness: the second orchestration started two intervals or more
\* after the first: the tick that fell during the first was not served.
C24_Witness ==
  /\ nStarted = 2
  /\ loopPc = "update"
  /\ runStart >= 2 * interval

====
